---- MODULE Spec2Model ----
(***************************************************************************)
(* Model of crates/ra_hir_def/src/child_by_source.rs: the six             *)
(* ChildBySource implementations (TraitId, ImplId, ModuleId, VariantId,    *)
(* EnumId, DefWithBodyId) and add_module_def.  A call builds a fresh       *)
(* DynMap by walking the children the database reports for the parent and  *)
(* inserting each one under the key of its kind.  The database is a        *)
(* snapshot that no action changes; every loop iteration is one step.      *)
(***************************************************************************)
EXTENDS Integers, Sequences, FiniteSets, TLC

VARIABLES db, pc, self, i, res, first

vars == <<db, pc, self, i, res, first>>

(* ---------------------------- bounds ---------------------------------- *)

\* most children a varied parent has
MaxChildren == 2

(* ------------------------- value universes ----------------------------- *)

\* keys::FUNCTION, keys::CONST, ... : the keys the implementations index with
Slots ==
  {"FUNCTION", "CONST", "STATIC", "TYPE_ALIAS", "TRAIT", "STRUCT", "UNION",
   "ENUM", "ENUM_VARIANT", "TUPLE_FIELD", "RECORD_FIELD", "IMPL"}

\* the six types that implement ChildBySource
Parents ==
  {"TraitId", "ImplId", "ModuleId", "VariantId", "EnumId", "DefWithBodyId"}

\* AssocItemId::{FunctionId, ConstId, TypeAliasId}
AssocItemKinds == {"FunctionId", "ConstId", "TypeAliasId"}

\* the ModuleDefId arms add_module_def names (AdtId flattened to its three arms)
HandledDefKinds ==
  {"FunctionId", "ConstId", "StaticId", "TypeAliasId", "TraitId",
   "StructId", "UnionId", "EnumId"}

\* ModuleDefId: the handled arms and one that falls to `_ => ()` (a submodule)
ModuleDefKinds == HandledDefKinds \cup {"ModuleId"}

\* Either::Left is a tuple field source, Either::Right a record field source
FieldTags == {"Left", "Right"}

\* HirFileId of the sources: a real file and a macro expansion
MainFile == "lib.rs"

FileIds == {MainFile, "macro.rs"}

\* syntax nodes the varied children point at
Anchors == {"n1", "n2"}

\* syntax nodes of the baseline crate
BaselineAnchors ==
  {"fn foo", "struct S", "impl S", "const C", "fn bar", "type T",
   "struct Local", "a", "b", "A", "B", "C"}

\* InFile { file_id, value }
InFile(f, v) == [file_id |-> f, value |-> v]

\* InFile::with_value: the same file, a new value
with_value(arena_map, v) == InFile(arena_map.file_id, v)

AllLocations == {InFile(f, a) : f \in FileIds, a \in Anchors \cup BaselineAnchors}

SeqsUpTo(S, n) == UNION {[1..k -> S] : k \in 0..n}

(* ------------------------------ DynMap --------------------------------- *)

\* DynMap::default(): every key's map is empty
DynMapDefault == [s \in Slots |-> <<>>]

\* map[key].insert(k, v): overwrites the value an equal k had
Insert(map, slot, k, v) ==
  [map EXCEPT ![slot] =
     [x \in (DOMAIN map[slot]) \cup {k} |-> IF x = k THEN v ELSE map[slot][x]]]

None == [some |-> FALSE]

Some(v) == [some |-> TRUE, value |-> v]

\* map[key].get(k)
Get(map, slot, k) == IF k \in DOMAIN map[slot] THEN Some(map[slot][k]) ELSE None

(* ----------------------------- database -------------------------------- *)

Item(kind, id) == [kind |-> kind, id |-> id]

Field(tag, node) == [tag |-> tag, node |-> node]

\* The crate of the spec's scenarios: a module with one function, one struct
\* (two record fields) and one impl (one const); an enum with three variants;
\* a trait with a method and a type alias; a body with one local struct.
\* trait_items holds the item of each (name, item) pair of data.items; the
\* name is never read.
Baseline ==
  [ trait_items  |-> <<Item("FunctionId", 5), Item("TypeAliasId", 6)>>,
    impl_items   |-> <<Item("ConstId", 4)>>,
    declarations |-> <<Item("FunctionId", 1), Item("StructId", 2)>>,
    impls        |-> <<Item("ImplId", 3)>>,
    fields       |-> InFile(MainFile, <<Field("Right", "a"), Field("Right", "b")>>),
    variants     |-> InFile(MainFile, <<"A", "B", "C">>),
    defs         |-> <<Item("StructId", 7)>>,
    source       |-> (1 :> InFile(MainFile, "fn foo") @@ 2 :> InFile(MainFile, "struct S")
                      @@ 3 :> InFile(MainFile, "impl S") @@ 4 :> InFile(MainFile, "const C")
                      @@ 5 :> InFile(MainFile, "fn bar") @@ 6 :> InFile(MainFile, "type T")
                      @@ 7 :> InFile(MainFile, "struct Local")) ]

\* a varied child list: each child's kind and the syntax node it comes from
Varied(Kinds, n) == SeqsUpTo([kind : Kinds, anchor : Anchors], n)

\* the ids the database interned for a varied list, numbered from base + 1
MkItems(v, base) == [k \in 1..Len(v) |-> Item(v[k].kind, base + k)]

MkSource(v, base) ==
  [id \in {base + k : k \in 1..Len(v)} |-> InFile(MainFile, v[id - base].anchor)]

TraitDbs ==
  {[Baseline EXCEPT !.trait_items = MkItems(v, 100),
                    !.source = MkSource(v, 100) @@ @] : v \in Varied(AssocItemKinds, MaxChildren)}

ImplDbs ==
  {[Baseline EXCEPT !.impl_items = MkItems(v, 100),
                    !.source = MkSource(v, 100) @@ @] : v \in Varied(AssocItemKinds, MaxChildren)}

ModuleDbs ==
  UNION {
    {[Baseline EXCEPT !.declarations = MkItems(v, 100), !.impls = MkItems(w, 200),
                      !.source = MkSource(v, 100) @@ MkSource(w, 200) @@ @] :
        w \in Varied({"ImplId"}, MaxChildren - Len(v))} :
    v \in Varied(ModuleDefKinds, MaxChildren)}

BodyDbs ==
  {[Baseline EXCEPT !.defs = MkItems(v, 100),
                    !.source = MkSource(v, 100) @@ @] : v \in Varied(ModuleDefKinds, MaxChildren)}

VariantDbs ==
  {[Baseline EXCEPT !.fields = InFile(f, v)] :
      f \in FileIds, v \in SeqsUpTo([tag : FieldTags, node : Anchors], MaxChildren)}

EnumDbs ==
  {[Baseline EXCEPT !.variants = InFile(f, v)] :
      f \in FileIds, v \in SeqsUpTo(Anchors, MaxChildren)}

\* a database differs from the baseline crate in the children of one parent
Databases == TraitDbs \cup ImplDbs \cup ModuleDbs \cup BodyDbs \cup VariantDbs \cup EnumDbs

\* func.lookup(db).source(db)
source(item) == db.source[item.id]

(* ------------------------ the implementations -------------------------- *)

\* mutant: a type alias filed under keys::TRAIT
TraitInsertAliasAsTrait(map, item) ==
  CASE item.kind = "FunctionId"  -> Insert(map, "FUNCTION", source(item), item)
    [] item.kind = "ConstId"     -> Insert(map, "CONST", source(item), item)
    [] item.kind = "TypeAliasId" -> Insert(map, "TRAIT", source(item), item)

\* the match in TraitId::child_by_source
TraitInsert(map, item) ==
  CASE item.kind = "FunctionId"  -> Insert(map, "FUNCTION", source(item), item)
    [] item.kind = "ConstId"     -> Insert(map, "CONST", source(item), item)
    [] item.kind = "TypeAliasId" -> Insert(map, "TYPE_ALIAS", source(item), item)

\* mutant: entry(k).or_insert(v), the first value of a location is kept
ImplInsertKeepFirst(map, item) ==
  LET slot == CASE item.kind = "FunctionId"  -> "FUNCTION"
                [] item.kind = "ConstId"     -> "CONST"
                [] item.kind = "TypeAliasId" -> "TYPE_ALIAS"
  IN  IF source(item) \in DOMAIN map[slot] THEN map
      ELSE Insert(map, slot, source(item), item)

\* the match in ImplId::child_by_source
ImplInsert(map, item) ==
  CASE item.kind = "FunctionId"  -> Insert(map, "FUNCTION", source(item), item)
    [] item.kind = "ConstId"     -> Insert(map, "CONST", source(item), item)
    [] item.kind = "TypeAliasId" -> Insert(map, "TYPE_ALIAS", source(item), item)

\* mutant: a static filed under keys::CONST
add_module_def_StaticAsConst(map, item) ==
  CASE item.kind = "FunctionId"  -> Insert(map, "FUNCTION", source(item), item)
    [] item.kind = "ConstId"     -> Insert(map, "CONST", source(item), item)
    [] item.kind = "StaticId"    -> Insert(map, "CONST", source(item), item)
    [] item.kind = "TypeAliasId" -> Insert(map, "TYPE_ALIAS", source(item), item)
    [] item.kind = "TraitId"     -> Insert(map, "TRAIT", source(item), item)
    [] item.kind = "StructId"    -> Insert(map, "STRUCT", source(item), item)
    [] item.kind = "UnionId"     -> Insert(map, "UNION", source(item), item)
    [] item.kind = "EnumId"      -> Insert(map, "ENUM", source(item), item)
    [] OTHER                     -> map

\* mutant: the AdtId::UnionId arm is missing, a union falls to `_ => ()`
add_module_def_NoUnion(map, item) ==
  CASE item.kind = "FunctionId"  -> Insert(map, "FUNCTION", source(item), item)
    [] item.kind = "ConstId"     -> Insert(map, "CONST", source(item), item)
    [] item.kind = "StaticId"    -> Insert(map, "STATIC", source(item), item)
    [] item.kind = "TypeAliasId" -> Insert(map, "TYPE_ALIAS", source(item), item)
    [] item.kind = "TraitId"     -> Insert(map, "TRAIT", source(item), item)
    [] item.kind = "StructId"    -> Insert(map, "STRUCT", source(item), item)
    [] item.kind = "EnumId"      -> Insert(map, "ENUM", source(item), item)
    [] OTHER                     -> map

\* mutant: no `_ => ()` arm, every other item is filed under keys::STRUCT
add_module_def_OtherAsStruct(map, item) ==
  CASE item.kind = "FunctionId"  -> Insert(map, "FUNCTION", source(item), item)
    [] item.kind = "ConstId"     -> Insert(map, "CONST", source(item), item)
    [] item.kind = "StaticId"    -> Insert(map, "STATIC", source(item), item)
    [] item.kind = "TypeAliasId" -> Insert(map, "TYPE_ALIAS", source(item), item)
    [] item.kind = "TraitId"     -> Insert(map, "TRAIT", source(item), item)
    [] item.kind = "UnionId"     -> Insert(map, "UNION", source(item), item)
    [] item.kind = "EnumId"      -> Insert(map, "ENUM", source(item), item)
    [] OTHER                     -> Insert(map, "STRUCT", source(item), item)

add_module_def(map, item) ==
  CASE item.kind = "FunctionId"  -> Insert(map, "FUNCTION", source(item), item)
    [] item.kind = "ConstId"     -> Insert(map, "CONST", source(item), item)
    [] item.kind = "StaticId"    -> Insert(map, "STATIC", source(item), item)
    [] item.kind = "TypeAliasId" -> Insert(map, "TYPE_ALIAS", source(item), item)
    [] item.kind = "TraitId"     -> Insert(map, "TRAIT", source(item), item)
    [] item.kind = "StructId"    -> Insert(map, "STRUCT", source(item), item)
    [] item.kind = "UnionId"     -> Insert(map, "UNION", source(item), item)
    [] item.kind = "EnumId"      -> Insert(map, "ENUM", source(item), item)
    [] OTHER                     -> map

\* mutant: an impl filed under keys::TRAIT
ModuleImplInsertAsTrait(map, imp) == Insert(map, "TRAIT", source(imp), imp)

\* the loop body over scope.impls() in ModuleId::child_by_source
ModuleImplInsert(map, imp) == Insert(map, "IMPL", source(imp), imp)

\* StructFieldId { parent: *self, local_id }
StructFieldId(parent, local_id) ==
  [kind |-> "StructFieldId", parent |-> parent, local_id |-> local_id]

\* EnumVariantId { parent: *self, local_id }
EnumVariantId(parent, local_id) ==
  [kind |-> "EnumVariantId", parent |-> parent, local_id |-> local_id]

\* mutant: no match on the Either, every field goes into both maps
VariantInsertBoth(map, parent, arena_map, k) ==
  LET id == StructFieldId(parent, k - 1)
      src == arena_map.value[k]
  IN  Insert(Insert(map, "TUPLE_FIELD", with_value(arena_map, src.node), id),
             "RECORD_FIELD", with_value(arena_map, src.node), id)

\* mutant: the arms of the match are swapped
VariantInsertSwapped(map, parent, arena_map, k) ==
  LET id == StructFieldId(parent, k - 1)
      src == arena_map.value[k]
  IN  IF src.tag = "Left"
      THEN Insert(map, "RECORD_FIELD", with_value(arena_map, src.node), id)
      ELSE Insert(map, "TUPLE_FIELD", with_value(arena_map, src.node), id)

\* the loop body of VariantId::child_by_source; local ids are arena indices
VariantInsert(map, parent, arena_map, k) ==
  LET id == StructFieldId(parent, k - 1)
      src == arena_map.value[k]
  IN  IF src.tag = "Left"
      THEN Insert(map, "TUPLE_FIELD", with_value(arena_map, src.node), id)
      ELSE Insert(map, "RECORD_FIELD", with_value(arena_map, src.node), id)

\* mutant: the loop body copied from VariantId, a variant filed as a tuple field
EnumInsertAsField(map, parent, arena_map, k) ==
  Insert(map, "TUPLE_FIELD", with_value(arena_map, arena_map.value[k]),
         StructFieldId(parent, k - 1))

\* the loop body of EnumId::child_by_source
EnumInsert(map, parent, arena_map, k) ==
  Insert(map, "ENUM_VARIANT", with_value(arena_map, arena_map.value[k]),
         EnumVariantId(parent, k - 1))

(* ------------- what the database reports, per the interface ------------ *)

\* the slot a child of a given kind belongs to; "none" for the other kinds
SlotOfKind(kind) ==
  CASE kind = "FunctionId"  -> "FUNCTION"
    [] kind = "ConstId"     -> "CONST"
    [] kind = "StaticId"    -> "STATIC"
    [] kind = "TypeAliasId" -> "TYPE_ALIAS"
    [] kind = "TraitId"     -> "TRAIT"
    [] kind = "StructId"    -> "STRUCT"
    [] kind = "UnionId"     -> "UNION"
    [] kind = "EnumId"      -> "ENUM"
    [] kind = "ImplId"      -> "IMPL"
    [] OTHER                -> "none"

\* an item child of database d: its slot, its source location, its id
ItemChild(d, item) ==
  [slot |-> SlotOfKind(item.kind), loc |-> d.source[item.id], id |-> item]

ItemChildren(d, items) == [k \in 1..Len(items) |-> ItemChild(d, items[k])]

\* the children database d reports for parent p, in enumeration order
ReportedIn(d, p) ==
  CASE p = "TraitId"       -> ItemChildren(d, d.trait_items)
    [] p = "ImplId"        -> ItemChildren(d, d.impl_items)
    [] p = "ModuleId"      -> ItemChildren(d, d.declarations) \o ItemChildren(d, d.impls)
    [] p = "DefWithBodyId" -> ItemChildren(d, d.defs)
    [] p = "VariantId"     ->
         [k \in 1..Len(d.fields.value) |->
            [slot |-> IF d.fields.value[k].tag = "Left" THEN "TUPLE_FIELD" ELSE "RECORD_FIELD",
             loc  |-> [file_id |-> d.fields.file_id, value |-> d.fields.value[k].node],
             id   |-> [kind |-> "StructFieldId", parent |-> p, local_id |-> k - 1]]]
    [] p = "EnumId"        ->
         [k \in 1..Len(d.variants.value) |->
            [slot |-> "ENUM_VARIANT",
             loc  |-> [file_id |-> d.variants.file_id, value |-> d.variants.value[k]],
             id   |-> [kind |-> "EnumVariantId", parent |-> p, local_id |-> k - 1]]]
    [] OTHER               -> <<>>

\* the precondition on lowering: within one slot no two children of a parent
\* share a source location
WellFormed(d) ==
  \A p \in Parents :
    LET cs == ReportedIn(d, p)
    IN  \A j, k \in DOMAIN cs :
          (j # k /\ cs[j].slot # "none" /\ cs[j].slot = cs[k].slot) => cs[j].loc # cs[k].loc

(* ------------------------------ actions -------------------------------- *)

NoCall == [self |-> "none", res |-> DynMapDefault]

TypeOK ==
  /\ db \in Databases
  /\ pc \in {"ready", "items", "impls"}
  /\ self \in Parents \cup {"none"}
  /\ i \in Nat

Init ==
  /\ db \in Databases
  /\ pc = "ready"
  /\ self = "none"
  /\ i = 1
  /\ res = DynMapDefault
  /\ first = NoCall

\* mutant: the map of the previous call is reused instead of a fresh one
CallStale(p) ==
  /\ pc = "ready"
  /\ pc' = "items"
  /\ self' = p
  /\ i' = 1
  /\ UNCHANGED <<db, first, res>>

\* p.child_by_source(db) is entered: let mut res = DynMap::default()
Call(p) ==
  /\ pc = "ready"
  /\ pc' = "items"
  /\ self' = p
  /\ i' = 1
  /\ res' = DynMapDefault
  /\ UNCHANGED <<db, first>>

TraitItem ==
  /\ pc = "items" /\ self = "TraitId"
  /\ i <= Len(db.trait_items)
  /\ res' = TraitInsert(res, db.trait_items[i])
  /\ i' = i + 1
  /\ UNCHANGED <<db, pc, self, first>>

ImplItem ==
  /\ pc = "items" /\ self = "ImplId"
  /\ i <= Len(db.impl_items)
  /\ res' = ImplInsert(res, db.impl_items[i])
  /\ i' = i + 1
  /\ UNCHANGED <<db, pc, self, first>>

ModuleDecl ==
  /\ pc = "items" /\ self = "ModuleId"
  /\ i <= Len(db.declarations)
  /\ res' = add_module_def(res, db.declarations[i])
  /\ i' = i + 1
  /\ UNCHANGED <<db, pc, self, first>>

\* declarations() is exhausted, the loop over impls() starts
ModuleDeclsEnd ==
  /\ pc = "items" /\ self = "ModuleId"
  /\ i > Len(db.declarations)
  /\ pc' = "impls"
  /\ i' = 1
  /\ UNCHANGED <<db, self, res, first>>

ModuleImpl ==
  /\ pc = "impls" /\ self = "ModuleId"
  /\ i <= Len(db.impls)
  /\ res' = ModuleImplInsert(res, db.impls[i])
  /\ i' = i + 1
  /\ UNCHANGED <<db, pc, self, first>>

VariantField ==
  /\ pc = "items" /\ self = "VariantId"
  /\ i <= Len(db.fields.value)
  /\ res' = VariantInsert(res, self, db.fields, i)
  /\ i' = i + 1
  /\ UNCHANGED <<db, pc, self, first>>

EnumVariant ==
  /\ pc = "items" /\ self = "EnumId"
  /\ i <= Len(db.variants.value)
  /\ res' = EnumInsert(res, self, db.variants, i)
  /\ i' = i + 1
  /\ UNCHANGED <<db, pc, self, first>>

BodyDef ==
  /\ pc = "items" /\ self = "DefWithBodyId"
  /\ i <= Len(db.defs)
  /\ res' = add_module_def(res, db.defs[i])
  /\ i' = i + 1
  /\ UNCHANGED <<db, pc, self, first>>

\* the list the running loop walks
Children ==
  CASE self = "TraitId"       -> db.trait_items
    [] self = "ImplId"        -> db.impl_items
    [] self = "ModuleId"      -> IF pc = "impls" THEN db.impls ELSE db.declarations
    [] self = "VariantId"     -> db.fields.value
    [] self = "EnumId"        -> db.variants.value
    [] self = "DefWithBodyId" -> db.defs
    [] OTHER                  -> <<>>

\* the last loop is exhausted: res is returned; the caller keeps the first map
Return ==
  /\ \/ pc = "items" /\ self # "ModuleId"
     \/ pc = "impls"
  /\ i > Len(Children)
  /\ pc' = "ready"
  /\ first' = IF first.self = "none" THEN [self |-> self, res |-> res] ELSE first
  /\ UNCHANGED <<db, self, i, res>>

Next ==
  \/ \E p \in Parents : Call(p)
  \/ TraitItem
  \/ ImplItem
  \/ ModuleDecl
  \/ ModuleDeclsEnd
  \/ ModuleImpl
  \/ VariantField
  \/ EnumVariant
  \/ BodyDef
  \/ Return

\* any database the interface can hand over
Spec == Init /\ [][Next]_vars

\* the databases lowering produces: source locations unique within a slot
InitWellFormed == Init /\ WellFormed(db)

SpecWellFormed == InitWellFormed /\ [][Next]_vars

(* ------------------------------- claims -------------------------------- *)

Reported(p) == ReportedIn(db, p)

\* a call has returned and res is the map it returned
Returned == pc = "ready" /\ self # "none"

\* the last loop of the running call is exhausted: res is the map about to be returned
Complete ==
  /\ \/ pc = "items" /\ self # "ModuleId"
     \/ pc = "impls"
  /\ i > Len(Children)

Entries(map) == UNION {{<<s, k>> : k \in DOMAIN map[s]} : s \in Slots}

Count(map, s) == Cardinality(DOMAIN map[s])

Range(f) == {f[x] : x \in DOMAIN f}

\* the positions of the children in the list cs that belong to a slot
Handled(cs) == {k \in DOMAIN cs : cs[k].slot # "none"}

\* child k of cs is the last one enumerated with its slot and source location
IsLast(cs, k) ==
  \A m \in DOMAIN cs : (cs[m].slot = cs[k].slot /\ cs[m].loc = cs[k].loc) => m <= k

\* C1 (round trip): under the lowering precondition (SpecWellFormed), when
\* child_by_source(p) has returned, every child c the database reports for p
\* that belongs to a slot is found again: get(slot_of(c), source_of(c)) is
\* Some(id_of(c)).
C1_RoundTrip ==
  Returned =>
    LET cs == Reported(self)
    IN  \A k \in Handled(cs) : Get(res, cs[k].slot, cs[k].loc) = Some(cs[k].id)

\* a field list in a macro file with a tuple and a record field has been mapped
C1_Witness ==
  /\ Returned /\ self = "VariantId"
  /\ db.fields.file_id # MainFile
  /\ Count(res, "TUPLE_FIELD") = 1 /\ Count(res, "RECORD_FIELD") = 1

Scenario ==
  /\ Len(db.declarations) = 2
  /\ {db.declarations[k].kind : k \in 1..2} = {"FunctionId", "StructId"}
  /\ Len(db.impls) = 1
  /\ Len(db.fields.value) = 2
  /\ \A k \in 1..2 : db.fields.value[k].tag = "Right"
  /\ Len(db.impl_items) = 1 /\ db.impl_items[1].kind = "ConstId"

\* C3 as stated: the module's own map holds the struct's two record fields
\* and the impl's const.
C3_Original ==
  (Returned /\ self = "ModuleId" /\ Scenario) =>
    /\ Count(res, "FUNCTION") = 1 /\ Count(res, "STRUCT") = 1
    /\ Count(res, "RECORD_FIELD") = 2 /\ Count(res, "IMPL") = 1
    /\ Count(res, "CONST") = 1
    /\ Count(res, "TUPLE_FIELD") = 0 /\ Count(res, "ENUM_VARIANT") = 0

\* C3 (amended): in the scenario the module's map has one FUNCTION, one STRUCT
\* and one IMPL entry and nothing else; the two record fields are in the map
\* of the struct's field list and the const in the map of the impl.
C3_KindFiltering ==
  (Returned /\ Scenario) =>
    /\ self = "ModuleId" =>
         /\ Count(res, "FUNCTION") = 1 /\ Count(res, "STRUCT") = 1 /\ Count(res, "IMPL") = 1
         /\ \A s \in Slots \ {"FUNCTION", "STRUCT", "IMPL"} : Count(res, s) = 0
    /\ self = "VariantId" =>
         /\ Count(res, "RECORD_FIELD") = 2
         /\ \A s \in Slots \ {"RECORD_FIELD"} : Count(res, s) = 0
    /\ self = "ImplId" =>
         /\ Count(res, "CONST") = 1
         /\ \A s \in Slots \ {"CONST"} : Count(res, s) = 0

\* the scenario's module has been mapped
C3_Witness == Returned /\ self = "ModuleId" /\ Scenario /\ Count(res, "IMPL") = 1

\* C4 (slot isolation): a step of a running build that changes slot A leaves
\* the contents of every other slot B as they were, so get(B, s) answers as
\* before; and when two children of different slots have the same source
\* location, the returned map holds that location in both slots.
C4_SlotIsolation ==
  /\ [][pc # "ready" =>
          \A A \in Slots :
            res'[A] # res[A] => \A B \in Slots \ {A} : res'[B] = res[B]]_vars
  /\ [](Returned =>
          LET cs == Reported(self)
          IN  \A j, k \in Handled(cs) :
                cs[j].loc = cs[k].loc => cs[j].loc \in DOMAIN res[cs[k].slot])

\* a map in which two slots hold the same source location has been returned
C4_Witness ==
  /\ Returned
  /\ \E A, B \in Slots : A # B /\ (DOMAIN res[A]) \cap (DOMAIN res[B]) # {}

\* C5 (idempotence): the map a call on parent p ends with answers every get
\* as the map of the first call on p did, whatever was called in between;
\* no step changes the database.
C5_Idempotent ==
  /\ []((Returned \/ Complete) /\ first.self = self =>
          \A s \in Slots : \A k \in AllLocations : Get(res, s, k) = Get(first.res, s, k))
  /\ [][db' = db]_vars

\* a later call on the parent of the first call has finished its loops
C5_Witness == Complete /\ first.self = self /\ Entries(res) # {}

\* C6 (last write wins): when several children of one slot have the same
\* source location, the returned map has one entry for it, whose value is the
\* id of the child enumerated last; the slot has one entry per distinct location.
C6_LastWriteWins ==
  Returned =>
    LET cs == Reported(self)
    IN  /\ \A k \in Handled(cs) :
             IsLast(cs, k) => Get(res, cs[k].slot, cs[k].loc) = Some(cs[k].id)
        /\ \A s \in Slots :
             Count(res, s) = Cardinality({cs[k].loc : k \in {h \in Handled(cs) : cs[h].slot = s}})

\* a map built from two children of one slot at one location has been returned
C6_Witness ==
  /\ Returned
  /\ LET cs == Reported(self)
     IN  \E j, k \in Handled(cs) :
           j < k /\ cs[j].slot = cs[k].slot /\ cs[j].loc = cs[k].loc /\ cs[j].id # cs[k].id

\* the variants of the enum have pairwise distinct source locations
DistinctVariants ==
  \A j, k \in 1..Len(db.variants.value) :
    j # k => db.variants.value[j] # db.variants.value[k]

\* C7 (enum): for an enum whose n variants have pairwise distinct source
\* locations the returned map has n ENUM_VARIANT entries, the k-th variant's
\* location mapping to its id, and no entry in any other slot.
C7_Enum ==
  (Returned /\ self = "EnumId" /\ DistinctVariants) =>
    /\ Count(res, "ENUM_VARIANT") = Len(db.variants.value)
    /\ \A k \in 1..Len(db.variants.value) :
         Get(res, "ENUM_VARIANT",
             [file_id |-> db.variants.file_id, value |-> db.variants.value[k]])
           = Some([kind |-> "EnumVariantId", parent |-> "EnumId", local_id |-> k - 1])
    /\ \A s \in Slots \ {"ENUM_VARIANT"} : Count(res, s) = 0

\* the enum with three variants has been mapped
C7_Witness ==
  /\ Returned /\ self = "EnumId" /\ DistinctVariants
  /\ Len(db.variants.value) = 3 /\ Count(res, "ENUM_VARIANT") = 3

\* the id of the last child of cs with slot s and location k, if any
ExpectedGet(cs, s, k) ==
  LET js == {j \in Handled(cs) : cs[j].slot = s /\ cs[j].loc = k}
  IN  IF js = {} THEN None
      ELSE Some(cs[CHOOSE j \in js : \A m \in js : m <= j].id)

\* the running call is about to handle an item outside the handled kinds
AtUnknown ==
  /\ pc = "items" /\ self \in {"ModuleId", "DefWithBodyId"}
  /\ i <= Len(Children)
  /\ Children[i].kind \notin HandledDefKinds

\* the locations a get on map can tell apart for the children cs: those the
\* map holds and those of the children (any other is absent on both sides)
Probes(map, cs) == UNION {DOMAIN map[s] : s \in Slots} \cup {cs[k].loc : k \in DOMAIN cs}

\* C8 (unknown kinds): the step that handles an item of a kind outside the
\* handled set leaves the map as it is and moves on to the next item, and the
\* returned map of a Module or DefWithBody answers every get from the handled
\* children alone, as if the other items were not in the list.
C8_UnknownIgnored ==
  /\ [][AtUnknown => (res' = res /\ i' = i + 1 /\ pc' = pc)]_vars
  /\ [](Returned /\ self \in {"ModuleId", "DefWithBodyId"} =>
          LET cs == Reported(self)
          IN  \A s \in Slots : \A k \in Probes(res, cs) :
                Get(res, s, k) = ExpectedGet(cs, s, k))

\* a list with a submodule followed by a handled item has been mapped
C8_Witness ==
  /\ Returned /\ self \in {"ModuleId", "DefWithBodyId"}
  /\ Len(Children) >= 2
  /\ Children[1].kind = "ModuleId"
  /\ Entries(res) # {}

\* the running call on a field list is about to handle field i
AtField == pc = "items" /\ self = "VariantId" /\ i <= Len(db.fields.value)

\* C9 (field classification): the step that handles a field puts it, with the
\* id StructFieldId{parent: the queried variant, local_id: its arena index},
\* under its source location into TUPLE_FIELD when it is a tuple field and
\* into RECORD_FIELD when it is a record field, and changes no other slot;
\* the returned map has no entry outside these two slots.
C9_FieldClassification ==
  /\ [][AtField =>
          LET f == db.fields.value[i]
              slot == IF f.tag = "Left" THEN "TUPLE_FIELD" ELSE "RECORD_FIELD"
              loc == [file_id |-> db.fields.file_id, value |-> f.node]
          IN  /\ Get(res', slot, loc) =
                   Some([kind |-> "StructFieldId", parent |-> "VariantId", local_id |-> i - 1])
              /\ \A s \in Slots \ {slot} : res'[s] = res[s]]_vars
  /\ [](Returned /\ self = "VariantId" =>
          \A s \in Slots \ {"TUPLE_FIELD", "RECORD_FIELD"} : Count(res, s) = 0)

\* a field list with a tuple field and a record field at one location has been mapped
C9_Witness ==
  /\ Returned /\ self = "VariantId"
  /\ (DOMAIN res["TUPLE_FIELD"]) \cap (DOMAIN res["RECORD_FIELD"]) # {}

\* C10 (no spurious entries): every entry of the map, during the build and on
\* return, comes from a reported child of the queried parent with that slot,
\* source location and id; so a Trait or Impl fills only FUNCTION, CONST and
\* TYPE_ALIAS, a DefWithBody never fills IMPL, and field and variant ids have
\* the queried parent as parent.
C10_NoSpurious ==
  self # "none" =>
    /\ LET cs == Reported(self)
       IN  \A s \in Slots : \A k \in DOMAIN res[s] :
             \E j \in Handled(cs) : cs[j].slot = s /\ cs[j].loc = k /\ cs[j].id = res[s][k]
    /\ self \in {"TraitId", "ImplId"} =>
         \A s \in Slots \ {"FUNCTION", "CONST", "TYPE_ALIAS"} : Count(res, s) = 0
    /\ self = "DefWithBodyId" => Count(res, "IMPL") = 0
    /\ \A s \in {"TUPLE_FIELD", "RECORD_FIELD", "ENUM_VARIANT"} :
         \A k \in DOMAIN res[s] : res[s][k].parent = self

\* a trait with a const and a type alias has been mapped
C10_Witness ==
  /\ Returned /\ self = "TraitId"
  /\ Count(res, "CONST") = 1 /\ Count(res, "TYPE_ALIAS") = 1

====
